---- MODULE Spec2Model ----
(***************************************************************************)
(* Model of train_model() in recognition/47364417/train.py: the epoch      *)
(* loop (train / validation / test pass, early stop, periodic checkpoint)  *)
(* and the finalization (final model save, plots).                         *)
(*                                                                         *)
(* The external collaborators are abstracted as follows.                   *)
(*  - get_dataloaders: every split is a dataset of n[s] samples served in  *)
(*    batches of batch_size samples, the last batch possibly shorter.      *)
(*    Sample i has label Label(i) and difficulty Difficulty(i).            *)
(*  - create_model / optimizer: the parameters are a level 0..MaxLevel; a  *)
(*    training step keeps the level or raises it by one.  The model        *)
(*    predicts the label of a sample iff its level has reached the         *)
(*    sample's difficulty, and some other class otherwise.                 *)
(*  - criterion: the batch loss is the fraction of misclassified samples,  *)
(*    so loss.item() * inputs.size(0) is the number of misclassified ones. *)
(* Quotients are kept as exact pairs <<numerator, denominator>>.           *)
(***************************************************************************)
EXTENDS Integers, Sequences, FiniteSets, TLC

\* ---------------------------------------------------------------- bounds
MaxTrain == 2
MaxVal == 1
MaxTest == 5
MaxBatch == 2
MaxLevel == 2

\* ------------------------------------------------------ program constants
num_epochs == 13
Threshold == 80
CheckpointEvery == 5
\* lr=0.0001, in units of 1e-5
LrInit == 10
NumClasses == 2

Splits == {"train", "val", "test"}

\* names that train_model binds by assignment, loop target or import
AssignedNames ==
  {"device", "data_dir", "output_dir", "checkpoints_dir", "dataloaders",
   "class_names", "num_classes", "model", "criterion", "optimizer",
   "scheduler", "scaler", "num_epochs", "train_losses", "train_accs",
   "epoch", "running_loss", "running_corrects", "total_samples", "inputs",
   "labels", "outputs", "loss", "preds", "epoch_loss", "epoch_acc",
   "val_running_loss", "val_running_corrects", "val_total_samples",
   "val_epoch_loss", "val_epoch_acc", "test_running_loss",
   "test_running_corrects", "test_total_samples", "all_preds", "all_labels",
   "test_epoch_acc", "checkpoint_path", "final_model_path", "cm", "disp",
   "os", "torch", "nn", "optim", "time", "plt", "get_dataloaders",
   "create_model", "confusion_matrix", "ConfusionMatrixDisplay"}

\* ------------------------------------------------------------------ paths
CheckpointPath(e) == <<"checkpoints", "checkpoint_epoch_N.pth", e>>
FinalModelPath == <<"checkpoints", "final_model.pth", 0>>
LossPlotPath == <<"output", "loss_vs_epochs.png", 0>>
AccPlotPath == <<"output", "accuracy_vs_epochs.png", 0>>
ConfusionPlotPath == <<"output", "confusion_matrix.png", 0>>

\* --------------------------------------------------------------- helpers
Min(a, b) == IF a <= b THEN a ELSE b

\* a value no assignment has produced yet
Unbound == <<0, 0>>

\* number of batches a loader over n samples yields
NumBatches(n_s, b) == (n_s + b - 1) \div b

\* sample indices of the k-th batch (1-based) of a loader over n samples
BatchIdx(n_s, b, k) == ((k - 1) * b + 1) .. Min(k * b, n_s)

\* inputs.size(0) of the k-th batch
BatchSize(n_s, b, k) == Cardinality(BatchIdx(n_s, b, k))

Label(i) == i % NumClasses

Difficulty(i) == 1 + ((i - 1) % (MaxLevel + 1))

\* _, preds = torch.max(model(inputs), 1), for sample i
Pred(level, i) ==
  IF Difficulty(i) <= level THEN Label(i) ELSE (Label(i) + 1) % NumClasses

\* variant: the correct count is weighted by the batch size, as the loss is
BatchCorrectsScaled(level, idx) ==
  Cardinality({i \in idx : Pred(level, i) = Label(i)}) * Cardinality(idx)

\* torch.sum(preds == labels.data) over a set of sample indices
BatchCorrects(level, idx) == Cardinality({i \in idx : Pred(level, i) = Label(i)})

\* loss.item() * inputs.size(0)
BatchLoss(level, idx) == Cardinality({i \in idx : Pred(level, i) # Label(i)})

\* the counter starts as the Python int 0 and becomes a tensor on the first +=
IntZero == [tensor |-> FALSE, v |-> 0]

AddCorrects(rc, k) == [tensor |-> TRUE, v |-> rc.v + k]

\* running_loss / total_samples
Quotient(a, b) == <<a, b>>

\* running_corrects.double() / total_samples * 100
Accuracy(rc, total) == <<rc.v * 100, total>>

\* variant: the comparison is strict
ReachedThresholdStrict(acc) == acc[1] > Threshold * acc[2]

\* test_epoch_acc >= 80.0
ReachedThreshold(acc) == acc[1] >= Threshold * acc[2]

\* preds.cpu().numpy() of the k-th batch, in sample order
BatchPreds(level, n_s, b, k) ==
  [j \in 1 .. BatchSize(n_s, b, k) |-> Pred(level, (k - 1) * b + j)]

\* labels.cpu().numpy() of the k-th batch, in sample order
BatchLabels(n_s, b, k) ==
  [j \in 1 .. BatchSize(n_s, b, k) |-> Label((k - 1) * b + j)]

\* ------------------------------------------------------------------ state
VARIABLES
  n, batch_size,                \* the datasets behind dataloaders[...]
  pc, err, epoch, bi,           \* position, raised exception, loop indices
  model, lr, last_epoch,        \* parameters, optimizer lr, scheduler clock
  running_loss, running_corrects, total_samples, epoch_loss, epoch_acc,
  val_running_loss, val_running_corrects, val_total_samples,
  val_epoch_loss, val_epoch_acc,
  test_running_loss, test_running_corrects, test_total_samples,
  test_epoch_acc, all_preds, all_labels,
  train_losses, train_accs,
  files                         \* log of torch.save / plt.savefig calls

dataVars == <<n, batch_size>>
optVars == <<lr, last_epoch>>
trainVars == <<running_loss, running_corrects, total_samples>>
trainOut == <<epoch_loss, epoch_acc, train_losses, train_accs>>
valVars == <<val_running_loss, val_running_corrects, val_total_samples>>
valOut == <<val_epoch_loss, val_epoch_acc>>
testVars == <<test_running_loss, test_running_corrects, test_total_samples,
              all_preds, all_labels>>

vars == <<n, batch_size, pc, err, epoch, bi, model, lr, last_epoch,
          running_loss, running_corrects, total_samples, epoch_loss, epoch_acc,
          val_running_loss, val_running_corrects, val_total_samples,
          val_epoch_loss, val_epoch_acc,
          test_running_loss, test_running_corrects, test_total_samples,
          test_epoch_acc, all_preds, all_labels,
          train_losses, train_accs, files>>

Raise(e) == err' = e /\ pc' = pc

\* state at line 43: setup done, the for statement not yet entered
Init ==
  /\ n \in [Splits -> 0 .. MaxTest]
  /\ n["train"] <= MaxTrain
  /\ n["val"] <= MaxVal
  /\ batch_size \in 1 .. MaxBatch
  /\ pc = "loop" /\ err = "none" /\ epoch = 0 /\ bi = 0
  /\ model = 0 /\ lr = LrInit /\ last_epoch = 0
  /\ running_loss = 0 /\ running_corrects = IntZero /\ total_samples = 0
  /\ epoch_loss = Unbound /\ epoch_acc = Unbound
  /\ val_running_loss = 0 /\ val_running_corrects = IntZero
  /\ val_total_samples = 0
  /\ val_epoch_loss = Unbound /\ val_epoch_acc = Unbound
  /\ test_running_loss = 0 /\ test_running_corrects = IntZero
  /\ test_total_samples = 0
  /\ test_epoch_acc = Unbound /\ all_preds = <<>> /\ all_labels = <<>>
  /\ train_losses = <<>> /\ train_accs = <<>>
  /\ files = <<>>

\* variant: the counters of the train pass are set once, before the loop
NextEpochKeepsCounters ==
  /\ pc = "loop" /\ err = "none"
  /\ IF epoch < num_epochs
       THEN /\ epoch' = epoch + 1
            /\ bi' = 0
            /\ pc' = "train"
       ELSE /\ pc' = "save_final"
            /\ UNCHANGED <<epoch, bi>>
  /\ UNCHANGED <<dataVars, err, model, optVars, trainVars, trainOut, valVars,
                 valOut, testVars, test_epoch_acc, files>>

\* variant: the range has one value more
NextEpochOneMore ==
  /\ pc = "loop" /\ err = "none"
  /\ IF epoch <= num_epochs
       THEN /\ epoch' = epoch + 1
            /\ running_loss' = 0 /\ running_corrects' = IntZero
            /\ total_samples' = 0
            /\ bi' = 0
            /\ pc' = "train"
       ELSE /\ pc' = "save_final"
            /\ UNCHANGED <<epoch, bi, trainVars>>
  /\ UNCHANGED <<dataVars, err, model, optVars, trainOut, valVars, valOut,
                 testVars, test_epoch_acc, files>>

\* lines 44-46: next value of range(1, num_epochs + 1), counters of the train pass
NextEpoch ==
  /\ pc = "loop" /\ err = "none"
  /\ IF epoch < num_epochs
       THEN /\ epoch' = epoch + 1
            /\ running_loss' = 0 /\ running_corrects' = IntZero
            /\ total_samples' = 0
            /\ bi' = 0
            /\ pc' = "train"
       ELSE /\ pc' = "save_final"
            /\ UNCHANGED <<epoch, bi, trainVars>>
  /\ UNCHANGED <<dataVars, err, model, optVars, trainOut, valVars, valOut,
                 testVars, test_epoch_acc, files>>

\* lines 48-64: one batch of the train pass
TrainBatch ==
  /\ pc = "train" /\ err = "none"
  /\ bi < NumBatches(n["train"], batch_size)
  /\ LET idx == BatchIdx(n["train"], batch_size, bi + 1)
     IN /\ running_loss' = running_loss + BatchLoss(model, idx)
        /\ running_corrects' = AddCorrects(running_corrects, BatchCorrects(model, idx))
        /\ total_samples' = total_samples + BatchSize(n["train"], batch_size, bi + 1)
  /\ model' \in {model, Min(model + 1, MaxLevel)}
  /\ bi' = bi + 1
  /\ UNCHANGED <<dataVars, pc, err, epoch, optVars, trainOut, valVars, valOut,
                 testVars, test_epoch_acc, files>>

\* lines 66-74: reduce the train pass, record history, counters of the validation pass
TrainEnd ==
  /\ pc = "train" /\ err = "none"
  /\ bi = NumBatches(n["train"], batch_size)
  /\ IF total_samples = 0
       THEN /\ Raise("ZeroDivisionError")
            /\ UNCHANGED <<bi, trainOut, valVars>>
       ELSE IF ~running_corrects.tensor
       THEN /\ Raise("AttributeError")
            /\ epoch_loss' = Quotient(running_loss, total_samples)
            /\ UNCHANGED <<bi, epoch_acc, train_losses, train_accs, valVars>>
       ELSE /\ epoch_loss' = Quotient(running_loss, total_samples)
            /\ epoch_acc' = Accuracy(running_corrects, total_samples)
            /\ train_losses' = Append(train_losses, epoch_loss')
            /\ train_accs' = Append(train_accs, epoch_acc')
            /\ val_running_loss' = 0 /\ val_running_corrects' = IntZero
            /\ val_total_samples' = 0
            /\ bi' = 0
            /\ pc' = "val" /\ err' = err
  /\ UNCHANGED <<dataVars, epoch, model, optVars, trainVars, valOut,
                 testVars, test_epoch_acc, files>>

\* lines 77-88: one batch of the validation pass
ValBatch ==
  /\ pc = "val" /\ err = "none"
  /\ bi < NumBatches(n["val"], batch_size)
  /\ LET idx == BatchIdx(n["val"], batch_size, bi + 1)
     IN /\ val_running_loss' = val_running_loss + BatchLoss(model, idx)
        /\ val_running_corrects' =
             AddCorrects(val_running_corrects, BatchCorrects(model, idx))
        /\ val_total_samples' =
             val_total_samples + BatchSize(n["val"], batch_size, bi + 1)
  /\ bi' = bi + 1
  /\ UNCHANGED <<dataVars, pc, err, epoch, model, optVars, trainVars, trainOut,
                 valOut, testVars, test_epoch_acc, files>>

\* variant: all_preds and all_labels are created once, before the loop
ValEndKeepsCollected ==
  /\ pc = "val" /\ err = "none"
  /\ bi = NumBatches(n["val"], batch_size)
  /\ IF val_total_samples = 0
       THEN /\ Raise("ZeroDivisionError")
            /\ UNCHANGED <<bi, valOut, testVars>>
       ELSE IF ~val_running_corrects.tensor
       THEN /\ Raise("AttributeError")
            /\ val_epoch_loss' = Quotient(val_running_loss, val_total_samples)
            /\ UNCHANGED <<bi, val_epoch_acc, testVars>>
       ELSE /\ val_epoch_loss' = Quotient(val_running_loss, val_total_samples)
            /\ val_epoch_acc' = Accuracy(val_running_corrects, val_total_samples)
            /\ test_running_loss' = 0 /\ test_running_corrects' = IntZero
            /\ test_total_samples' = 0
            /\ UNCHANGED <<all_preds, all_labels>>
            /\ bi' = 0
            /\ pc' = "test" /\ err' = err
  /\ UNCHANGED <<dataVars, epoch, model, optVars, trainVars, trainOut, valVars,
                 test_epoch_acc, files>>

\* lines 90-95: reduce the validation pass, counters and collections of the test pass
ValEnd ==
  /\ pc = "val" /\ err = "none"
  /\ bi = NumBatches(n["val"], batch_size)
  /\ IF val_total_samples = 0
       THEN /\ Raise("ZeroDivisionError")
            /\ UNCHANGED <<bi, valOut, testVars>>
       ELSE IF ~val_running_corrects.tensor
       THEN /\ Raise("AttributeError")
            /\ val_epoch_loss' = Quotient(val_running_loss, val_total_samples)
            /\ UNCHANGED <<bi, val_epoch_acc, testVars>>
       ELSE /\ val_epoch_loss' = Quotient(val_running_loss, val_total_samples)
            /\ val_epoch_acc' = Accuracy(val_running_corrects, val_total_samples)
            /\ test_running_loss' = 0 /\ test_running_corrects' = IntZero
            /\ test_total_samples' = 0
            /\ all_preds' = <<>> /\ all_labels' = <<>>
            /\ bi' = 0
            /\ pc' = "test" /\ err' = err
  /\ UNCHANGED <<dataVars, epoch, model, optVars, trainVars, trainOut, valVars,
                 test_epoch_acc, files>>

\* lines 98-112: one batch of the test pass
TestBatch ==
  /\ pc = "test" /\ err = "none"
  /\ bi < NumBatches(n["test"], batch_size)
  /\ LET idx == BatchIdx(n["test"], batch_size, bi + 1)
     IN /\ test_running_loss' = test_running_loss + BatchLoss(model, idx)
        /\ test_running_corrects' =
             AddCorrects(test_running_corrects, BatchCorrects(model, idx))
        /\ test_total_samples' =
             test_total_samples + BatchSize(n["test"], batch_size, bi + 1)
  /\ all_preds' = all_preds \o BatchPreds(model, n["test"], batch_size, bi + 1)
  /\ all_labels' = all_labels \o BatchLabels(n["test"], batch_size, bi + 1)
  /\ bi' = bi + 1
  /\ UNCHANGED <<dataVars, pc, err, epoch, model, optVars, trainVars, trainOut,
                 valVars, valOut, test_epoch_acc, files>>

\* variant: the correct count starts as a zero tensor, so an empty pass
\* divides 0 by 0 into a nan that compares false with the threshold
TestEndNoRaise ==
  /\ pc = "test" /\ err = "none"
  /\ bi = NumBatches(n["test"], batch_size)
  /\ test_epoch_acc' = Accuracy(test_running_corrects, test_total_samples)
  /\ pc' = IF test_total_samples > 0 /\ ReachedThreshold(test_epoch_acc')
             THEN "save_final" ELSE "checkpoint"
  /\ err' = err
  /\ UNCHANGED <<dataVars, epoch, bi, model, optVars, trainVars, trainOut,
                 valVars, valOut, testVars, files>>

\* lines 114-117: test accuracy and the early-stop check
TestEnd ==
  /\ pc = "test" /\ err = "none"
  /\ bi = NumBatches(n["test"], batch_size)
  /\ IF ~test_running_corrects.tensor
       THEN /\ Raise("AttributeError")
            /\ UNCHANGED test_epoch_acc
       ELSE /\ test_epoch_acc' = Accuracy(test_running_corrects, test_total_samples)
            /\ pc' = IF ReachedThreshold(test_epoch_acc')
                       THEN "save_final" ELSE "checkpoint"
            /\ err' = err
  /\ UNCHANGED <<dataVars, epoch, bi, model, optVars, trainVars, trainOut,
                 valVars, valOut, testVars, files>>

\* variant: a checkpoint in every epoch
CheckpointEveryEpoch ==
  /\ pc = "checkpoint" /\ err = "none"
  /\ files' = Append(files, [path |-> CheckpointPath(epoch),
                             data |-> <<epoch, model, lr, epoch_loss>>])
  /\ pc' = "loop"
  /\ UNCHANGED <<dataVars, err, epoch, bi, model, optVars, trainVars, trainOut,
                 valVars, valOut, testVars, test_epoch_acc>>

\* variant: scheduler.step() at the end of the epoch, StepLR(step_size=10, gamma=0.1)
CheckpointStepsScheduler ==
  /\ pc = "checkpoint" /\ err = "none"
  /\ files' = IF epoch % CheckpointEvery = 0
                THEN Append(files, [path |-> CheckpointPath(epoch),
                                    data |-> <<epoch, model, lr, epoch_loss>>])
                ELSE files
  /\ last_epoch' = last_epoch + 1
  /\ lr' = IF last_epoch' % 10 = 0 THEN lr \div 10 ELSE lr
  /\ pc' = "loop"
  /\ UNCHANGED <<dataVars, err, epoch, bi, model, trainVars, trainOut,
                 valVars, valOut, testVars, test_epoch_acc>>

\* lines 119-127: periodic checkpoint, then back to the for statement
Checkpoint ==
  /\ pc = "checkpoint" /\ err = "none"
  /\ files' = IF epoch % CheckpointEvery = 0
                THEN Append(files, [path |-> CheckpointPath(epoch),
                                    data |-> <<epoch, model, lr, epoch_loss>>])
                ELSE files
  /\ pc' = "loop"
  /\ UNCHANGED <<dataVars, err, epoch, bi, model, optVars, trainVars, trainOut,
                 valVars, valOut, testVars, test_epoch_acc>>

\* variant: the final save sits in the else branch of the for statement
SaveFinalOnlyAfterFullRun ==
  /\ pc = "save_final" /\ err = "none"
  /\ files' = IF ReachedThreshold(test_epoch_acc)
                THEN files
                ELSE Append(files, [path |-> FinalModelPath, data |-> <<model>>])
  /\ pc' = "plot"
  /\ UNCHANGED <<dataVars, err, epoch, bi, model, optVars, trainVars, trainOut,
                 valVars, valOut, testVars, test_epoch_acc>>

\* lines 129-131: final model
SaveFinal ==
  /\ pc = "save_final" /\ err = "none"
  /\ files' = Append(files, [path |-> FinalModelPath, data |-> <<model>>])
  /\ pc' = "plot"
  /\ UNCHANGED <<dataVars, err, epoch, bi, model, optVars, trainVars, trainOut,
                 valVars, valOut, testVars, test_epoch_acc>>

\* lines 133-158: the three figures; a name nothing binds raises NameError
Plot ==
  /\ pc = "plot" /\ err = "none"
  /\ IF "val_losses" \notin AssignedNames
       THEN /\ Raise("NameError")
            /\ UNCHANGED files
       ELSE IF "val_accs" \notin AssignedNames
       THEN /\ Raise("NameError")
            /\ files' = Append(files, [path |-> LossPlotPath, data |-> <<>>])
       ELSE /\ files' = files \o <<[path |-> LossPlotPath, data |-> <<>>],
                                   [path |-> AccPlotPath, data |-> <<>>],
                                   [path |-> ConfusionPlotPath, data |-> <<>>]>>
            /\ pc' = "done" /\ err' = err
  /\ UNCHANGED <<dataVars, epoch, bi, model, optVars, trainVars, trainOut,
                 valVars, valOut, testVars, test_epoch_acc>>

Next ==
  \/ NextEpoch
  \/ TrainBatch
  \/ TrainEnd
  \/ ValBatch
  \/ ValEnd
  \/ TestBatch
  \/ TestEnd
  \/ Checkpoint
  \/ SaveFinal
  \/ Plot

Spec == Init /\ [][Next]_vars

\* the interpreter runs the next statement whenever there is one
FairSpec == Init /\ [][Next]_vars /\ WF_vars(Next)

\* ------------------------------------------------------------ properties
LoopEnded == pc \in {"save_final", "plot", "done"}

Paths == [k \in 1 .. Len(files) |-> files[k].path]

IsCheckpointPath(p) == p[2] = "checkpoint_epoch_N.pth"

IsImagePath(p) == p[1] = "output"

Written(p) == \E k \in 1 .. Len(files) : files[k].path = p

TimesWritten(p) == Cardinality({k \in 1 .. Len(files) : files[k].path = p})

\* the test accuracy of the current epoch, from the raw counters
TestAtLeast80 == 100 * test_running_corrects.v >= 80 * test_total_samples

RECURSIVE SumSizes(_, _, _)
SumSizes(n_s, b, k) ==
  IF k = 0 THEN 0 ELSE BatchSize(n_s, b, k) + SumSizes(n_s, b, k - 1)

AllOf(s) == SumSizes(n[s], batch_size, NumBatches(n[s], batch_size))

\* C1: the epoch loop is left from the test pass exactly when the test
\* accuracy of that epoch is >= 80; once the loop is left no pass of a later
\* epoch runs; an epoch below 80 goes on to the checkpoint step and from
\* there to the next epoch while one remains.
EarlyStopExactlyAt80 ==
  [][ /\ (pc = "test" /\ pc' # "test") =>
           /\ (pc' = "save_final" <=> TestAtLeast80)
           /\ (pc' = "checkpoint" <=> ~TestAtLeast80)
      /\ (pc # "save_final" /\ pc' = "save_final") =>
           \/ pc = "test"
           \/ pc = "loop" /\ epoch = 13
      /\ LoopEnded =>
           /\ LoopEnded'
           /\ UNCHANGED <<epoch, bi, model, trainVars, trainOut, valVars,
                          valOut, testVars, test_epoch_acc>>
      /\ (pc = "checkpoint" /\ pc' # pc) => (pc' = "loop" /\ epoch' = epoch)
      /\ (pc = "loop" /\ epoch < 13 /\ pc' # pc) =>
           (pc' = "train" /\ epoch' = epoch + 1)
    ]_vars

EarlyStopWitness ==
  /\ pc = "save_final" /\ epoch > 1 /\ epoch < 13
  /\ test_epoch_acc[1] = 80 * test_epoch_acc[2]
  /\ test_epoch_acc[2] > 0

\* the checkpoint step of epoch e has been passed
CheckpointStepDone(e) ==
  \/ e < epoch
  \/ e = epoch /\ pc = "loop"
  \/ e = epoch /\ LoopEnded /\ ~TestAtLeast80

\* C2: checkpoint_epoch_N.pth has been written (once) iff N is a multiple of
\* 5 and epoch N got past its early-stop check; no checkpoint is written in
\* the epoch that stops early, and only epochs 5 and 10 ever produce one.
CheckpointOnlyEveryFifth ==
  /\ \A e \in 1 .. 13 :
       /\ Written(CheckpointPath(e)) <=> (e % 5 = 0 /\ CheckpointStepDone(e))
       /\ TimesWritten(CheckpointPath(e)) <= 1
  /\ \A k \in 1 .. Len(files) :
       IsCheckpointPath(files[k].path) => files[k].path[3] \in {5, 10}

CheckpointWitness ==
  /\ epoch = 10 /\ pc = "save_final" /\ TestAtLeast80
  /\ Written(CheckpointPath(5))
  /\ ~Written(CheckpointPath(10))

\* C3: once the epoch loop has ended, by exhaustion or by the early stop,
\* final_model.pth is written exactly once, after every checkpoint and
\* before any image; before the loop has ended it is not written at all.
FinalModelSavedOnce ==
  /\ pc \in {"plot", "done"} =>
       /\ TimesWritten(FinalModelPath) = 1
       /\ \A k \in 1 .. Len(files) :
            files[k].path = FinalModelPath =>
              /\ files[k].data = <<model>>
              /\ \A j \in 1 .. k - 1 : IsCheckpointPath(files[j].path)
              /\ \A j \in k + 1 .. Len(files) : IsImagePath(files[j].path)
  /\ pc \notin {"plot", "done"} =>
       \A k \in 1 .. Len(files) : IsCheckpointPath(files[k].path)

FinalModelWitness ==
  /\ pc = "plot" /\ epoch < 13 /\ TestAtLeast80
  /\ Written(FinalModelPath)
  /\ Written(CheckpointPath(5))

\* C4: a run whose epoch loop ended without an exception has, when it
\* stops, written the three images in the order loss, accuracy, confusion
\* matrix, after the final model.
AllPlotsWritten ==
  (pc \in {"plot", "done"} /\ (pc = "done" \/ err # "none")) =>
    /\ Len(files) >= 4
    /\ Paths[Len(files) - 3] = FinalModelPath
    /\ Paths[Len(files) - 2] = LossPlotPath
    /\ Paths[Len(files) - 1] = AccPlotPath
    /\ Paths[Len(files)] = ConfusionPlotPath

InPercentRange(a) == a = Unbound \/ (a[2] > 0 /\ 0 <= a[1] /\ a[1] <= 100 * a[2])

\* C5: in every pass the running correct count lies between 0 and the
\* running sample count, and every accuracy computed at the end of a pass
\* that saw a sample lies in [0, 100].
AccuracyInRange ==
  /\ 0 <= running_corrects.v /\ running_corrects.v <= total_samples
  /\ 0 <= val_running_corrects.v /\ val_running_corrects.v <= val_total_samples
  /\ 0 <= test_running_corrects.v /\ test_running_corrects.v <= test_total_samples
  /\ InPercentRange(epoch_acc)
  /\ InPercentRange(val_epoch_acc)
  /\ InPercentRange(test_epoch_acc)
  /\ \A k \in 1 .. Len(train_accs) : InPercentRange(train_accs[k])
  /\ (pc \in {"val", "test", "checkpoint"} \/ LoopEnded) => epoch_acc # Unbound
  /\ (pc \in {"test", "checkpoint"} \/ LoopEnded) => val_epoch_acc # Unbound
  /\ (pc = "checkpoint" \/ LoopEnded) => test_epoch_acc # Unbound

AccuracyWitness ==
  /\ pc = "checkpoint" /\ epoch >= 2
  /\ epoch_acc = <<100 * 2, 2>>
  /\ val_epoch_acc = <<100, 1>>
  /\ 0 < test_epoch_acc[1] /\ test_epoch_acc[1] < 100 * test_epoch_acc[2]

\* C6: in every epoch the sample counter of a pass counts, from 0, exactly
\* the batch sizes the pass's iterator has yielded so far, and after the
\* pass the sum of the batch sizes of all its batches.
SampleCountIsBatchSum ==
  /\ pc = "train" => total_samples = SumSizes(n["train"], batch_size, bi)
  /\ pc = "val" => val_total_samples = SumSizes(n["val"], batch_size, bi)
  /\ pc = "test" => test_total_samples = SumSizes(n["test"], batch_size, bi)
  /\ (pc \in {"val", "test", "checkpoint"} \/ LoopEnded \/ (pc = "loop" /\ epoch > 0))
       => total_samples = AllOf("train")
  /\ (pc \in {"test", "checkpoint"} \/ LoopEnded \/ (pc = "loop" /\ epoch > 0))
       => val_total_samples = AllOf("val")
  /\ (pc = "checkpoint" \/ LoopEnded \/ (pc = "loop" /\ epoch > 0))
       => test_total_samples = AllOf("test")

SampleCountWitness ==
  /\ epoch >= 2 /\ pc = "checkpoint"
  /\ total_samples = 2 /\ NumBatches(n["train"], batch_size) = 1
  /\ val_total_samples = 1
  /\ test_total_samples = 5 /\ NumBatches(n["test"], batch_size) = 3

\* C7 as stated: a pass over zero samples ends in a division-by-zero error,
\* whichever of the three passes it is.
ZeroSamplesRaiseDivisionByZero ==
  \A s \in Splits :
    (n[s] = 0 /\ pc = s /\ err # "none") => err = "ZeroDivisionError"

\* C7 as amended: a train or validation pass over zero samples ends in a
\* division-by-zero error and a test pass over zero samples in an attribute
\* error (the integer 0 has no method double); the pass is never got past,
\* nothing is written, and no step follows an error.
ZeroSamplesRaise ==
  /\ [](n["train"] = 0 =>
          /\ pc \in {"loop", "train"} /\ epoch <= 1
          /\ files = <<>> /\ train_losses = <<>>
          /\ err # "none" => (err = "ZeroDivisionError" /\ pc = "train"))
  /\ []((n["train"] > 0 /\ n["val"] = 0) =>
          /\ pc \in {"loop", "train", "val"} /\ epoch <= 1
          /\ files = <<>>
          /\ err # "none" => (err = "ZeroDivisionError" /\ pc = "val"))
  /\ []((n["train"] > 0 /\ n["val"] > 0 /\ n["test"] = 0) =>
          /\ pc \in {"loop", "train", "val", "test"} /\ epoch <= 1
          /\ files = <<>>
          /\ err # "none" => (err = "AttributeError" /\ pc = "test"))
  /\ [][ /\ err = "none"
         /\ \A s \in Splits :
              (n[s] = 0 /\ pc = s /\ bi = NumBatches(n[s], batch_size))
                => err' # "none"
       ]_vars

ZeroSamplesWitness ==
  /\ n["train"] > 0 /\ n["val"] > 0 /\ n["test"] = 0
  /\ pc = "test" /\ err = "AttributeError"
  /\ files = <<>>

\* C8: nothing advances the step-decay schedule, so the optimizer's learning
\* rate keeps its initial value 0.0001 through every training step, also
\* after the 10th epoch.
LearningRateNeverDecays ==
  /\ lr = 10
  /\ last_epoch = 0
  /\ \A k \in 1 .. Len(files) :
       IsCheckpointPath(files[k].path) => files[k].data[3] = 10

LearningRateWitness ==
  /\ epoch > 10 /\ pc = "train" /\ bi > 0
  /\ lr = 10

PcOrder ==
  {<<"loop", "train">>, <<"train", "val">>, <<"val", "test">>,
   <<"test", "checkpoint">>, <<"test", "save_final">>,
   <<"checkpoint", "loop">>, <<"loop", "save_final">>,
   <<"save_final", "plot">>, <<"plot", "done">>}

\* C9: the epoch loop ends (or the run fails) after at most 13 epochs; the
\* epoch index goes 1, 2, ... in steps of one, taken only on entering the
\* train pass; in an epoch the train pass is exhausted before the validation
\* pass starts, that one before the test pass starts, and that one before
\* the early-stop check and the checkpoint step.
EpochLoopTerminatesInOrder ==
  /\ <>(LoopEnded \/ err # "none")
  /\ [](epoch \in 0 .. 13)
  /\ [][ /\ epoch' = epoch \/ (epoch' = epoch + 1 /\ pc = "loop" /\ pc' = "train")
         /\ (pc = "loop" /\ pc' = "train") => epoch' = epoch + 1
         /\ pc' = pc \/ <<pc, pc'>> \in PcOrder
         /\ (pc = "train" /\ pc' = "val") =>
               (bi = NumBatches(n["train"], batch_size) /\ bi' = 0)
         /\ (pc = "val" /\ pc' = "test") =>
               (bi = NumBatches(n["val"], batch_size) /\ bi' = 0)
         /\ (pc = "test" /\ pc' # "test") =>
               bi = NumBatches(n["test"], batch_size)
         /\ (pc' = pc /\ pc \in Splits /\ err' = "none") => bi' = bi + 1
       ]_vars

EpochLoopWitness ==
  /\ epoch = 13 /\ pc = "save_final" /\ ~TestAtLeast80
  /\ Len(train_losses) = 13

\* C10: the collected predictions and labels are emptied before each test
\* pass, so during and after it they hold one entry per test sample seen in
\* this epoch and, after the loop, exactly the labels and the predictions of
\* the last epoch's test samples; the train histories hold one entry per
\* epoch whose train pass has finished, the early-stopping epoch included.
CollectedOnlyLastEpoch ==
  /\ pc = "test" =>
       /\ Len(all_preds) = test_total_samples
       /\ Len(all_labels) = test_total_samples
  /\ (pc = "checkpoint" \/ LoopEnded \/ (pc = "loop" /\ epoch > 0)) =>
       /\ all_labels = [i \in 1 .. n["test"] |-> Label(i)]
       /\ all_preds = [i \in 1 .. n["test"] |-> Pred(model, i)]
  /\ Len(train_losses) = (IF pc = "train" THEN epoch - 1 ELSE epoch)
  /\ Len(train_accs) = Len(train_losses)

CollectedWitness ==
  /\ pc = "plot" /\ epoch >= 2 /\ epoch < 13 /\ TestAtLeast80
  /\ Len(all_preds) = 5 /\ n["test"] = 5
  /\ Len(train_accs) = epoch

====
